---- MODULE Spec2Model ----
(***************************************************************************)
(* Model of the snake engine (src/snake/game.py), the game loop            *)
(* (src/snake/__init__.py) and the proximity player's training             *)
(* (src/gamer/trained.py).                                                 *)
(***************************************************************************)
EXTENDS Integers, Sequences, FiniteSets, TLC

\* ---------------------------------------------------------------- bounds
MaxWidth == 3
MaxHeight == 3

\* ------------------------------------------------- Position (game.py 5-144)
LEFT == 0
UP == 1
RIGHT == 2
DOWN == 3

\* a validity test that lets every direction argument through
DIRS_unchecked == {LEFT, UP, RIGHT, DOWN, 4}

\* the directions Position.move accepts (game.py 81)
DIRS == {LEFT, UP, RIGHT, DOWN}

\* a direction argument outside the four recognised values
BadDir == 4

\* Positions are pairs <<x, y>>
Pos(x, y) == <<x, y>>

Range(s) == {s[i] : i \in 1..Len(s)}

\* a move whose vertical axis points down
move_y_down(p, dir) ==
    LET dx == IF dir = RIGHT THEN 1 ELSE (IF dir = LEFT THEN -1 ELSE 0)
        dy == IF dir = UP THEN -1 ELSE (IF dir = DOWN THEN 1 ELSE 0)
    IN  Pos(p[1] + dx, p[2] + dy)

\* Position.move, for a valid direction (game.py 85-89)
move(p, dir) ==
    LET dx == IF dir = RIGHT THEN 1 ELSE (IF dir = LEFT THEN -1 ELSE 0)
        dy == IF dir = UP THEN 1 ELSE (IF dir = DOWN THEN -1 ELSE 0)
    IN  Pos(p[1] + dx, p[2] + dy)

\* a bounds test that takes the borders one cell too far right and up
is_out_of_bounds_wide(p, bnds) ==
    p[1] < bnds[1] \/ p[1] > bnds[3] + 1 \/ p[2] < bnds[4] \/ p[2] > bnds[2] + 1

\* Position.is_out_of_bounds; bounds are <<left, top, right, bottom>>
is_out_of_bounds(p, bnds) ==
    LET left == bnds[1]
        top == bnds[2]
        right == bnds[3]
        bottom == bnds[4]
    IN  p[1] < left \/ p[1] > right \/ p[2] < bottom \/ p[2] > top

\* a placement that forgets the taboo list
random_position_no_taboo(bnds, taboo) ==
    {Pos(x, y) : x \in bnds[1]..bnds[3], y \in bnds[4]..bnds[2]}

\* Position.random_position: the set of positions a call can return. Both the
\* random tries (127-129) and the enumeration (132-144) return a position
\* inside the bounds that is not in taboo; the set is empty exactly when the
\* call raises "No free positions left".
random_position(bnds, taboo) ==
    LET left == bnds[1]
        top == bnds[2]
        right == bnds[3]
        bottom == bnds[4]
    IN  {Pos(x, y) : x \in left..right, y \in bottom..top} \ Range(taboo)

\* ------------------------------------------------------------------ state
VARIABLES
    width, height,      \* Snake.width, Snake.height
    snake,              \* contents of the list object Snake.snake (tail first)
    apple,              \* Snake.apple
    score,              \* Snake.score
    alive,              \* Snake.alive
    win,                \* Snake.win
    call,               \* the last call made and how it ended
    pc,                 \* where the caller (game loop or recorder) stands
    status,             \* play_game: the local status
    direction,          \* play_game: the local direction
    history,            \* the list of status objects collected so far
    radius, gamma,      \* ProximityPlayer.radius, ProximityPlayer.gamma
    exp_reward,         \* ProximityPlayer.exp_reward
    other_exp_reward,   \* exp_reward of a second ProximityPlayer
    file,               \* the file save_model writes and load_model reads
    path, idx           \* BoringPathPlayer.path, BoringPathPlayer.idx

engine == <<width, height, snake, apple, score, alive, win>>
caller == <<pc, status, direction, history>>
player == <<radius, gamma, exp_reward>>
store == <<other_exp_reward, file>>
boring == <<path, idx>>
vars == <<width, height, snake, apple, score, alive, win, call,
          pc, status, direction, history, radius, gamma, exp_reward,
          other_exp_reward, file, path, idx>>

\* Snake.bounds (game.py 223)
bounds == <<0, height - 1, width - 1, 0>>

\* Snake.get_snake_head_position
get_snake_head_position == snake[Len(snake)]

\* a game-over test that forgets the win flag
is_game_over_lost_only == ~alive

\* Snake.is_game_over
is_game_over == ~alive \/ win

\* Snake.__init__: the constructor returns only if both placements succeed
SnakeInit(w, h) ==
    /\ width = w
    /\ height = h
    /\ \E p \in random_position(<<0, h - 1, w - 1, 0>>, <<>>) :
        /\ snake = <<p>>
        /\ apple \in random_position(<<0, h - 1, w - 1, 0>>, <<p>>)
    /\ score = 0
    /\ alive = TRUE
    /\ win = FALSE

\* what the last call was and how it ended
Called(op, dir, raised) == [op |-> op, dir |-> dir, raised |-> raised]

\* self_bite (game.py 250): the candidate is any cell of the body
self_bite_ignoring_tail(next_pos) == next_pos \in Range(Tail(snake))

self_bite(next_pos) == next_pos \in Range(snake)

\* the tail staying where it is on a move that eats nothing
pop_nothing(s) == s

\* list.pop(0) (game.py 277)
pop_last(s) == SubSeq(s, 1, Len(s) - 1)

pop_0(s) == Tail(s)

\* the endgame condition (game.py 269)
board_full_off_by_one(s) == Len(s) = width * height - 1

board_full(s) == Len(s) = width * height

\* Snake.play(dir)
play(dir) ==
    IF is_game_over
    THEN \* 242-243
         /\ call' = Called("play", dir, "GameOver")
         /\ UNCHANGED engine
    ELSE IF dir \notin DIRS
    THEN \* 246: Position.move raises (81-82)
         /\ call' = Called("play", dir, "InvalidMove")
         /\ UNCHANGED engine
    ELSE LET next_pos == move(get_snake_head_position, dir)
             out_of_bounds == is_out_of_bounds(next_pos, bounds)
             apple_eaten == next_pos = apple
             grown == Append(snake, next_pos)
         IN  IF out_of_bounds \/ self_bite(next_pos)
             THEN \* 254-255
                  /\ alive' = FALSE
                  /\ call' = Called("play", dir, "none")
                  /\ UNCHANGED <<width, height, snake, apple, score, win>>
             ELSE IF apple_eaten
             THEN \* 261, 265-272
                  /\ score' = score + 1
                  /\ snake' = grown
                  /\ IF board_full(grown)
                     THEN /\ win' = TRUE
                          /\ apple' = apple
                          /\ call' = Called("play", dir, "none")
                     ELSE /\ win' = win
                          /\ IF random_position(bounds, grown) = {}
                             THEN \* random_position raises (140-141)
                                  /\ apple' = apple
                                  /\ call' = Called("play", dir, "NoFreePosition")
                             ELSE /\ apple' \in random_position(bounds, grown)
                                  /\ call' = Called("play", dir, "none")
                  /\ UNCHANGED <<width, height, alive>>
             ELSE \* 261, 277
                  /\ snake' = pop_0(grown)
                  /\ call' = Called("play", dir, "none")
                  /\ UNCHANGED <<width, height, apple, score, alive, win>>

NoCall == Called("init", BadDir, "none")

\* ------------------------------------------- SnakeStatus (game.py 147-169)
\* A list object is either the engine's own list (Snake.snake is assigned once,
\* at 224, and changed in place at 261 and 277) or a separate list that nothing
\* changes. A reference to the engine's list reads its current contents.
EngineList == [obj |-> "Snake.snake", items |-> <<>>]

CopiedList(s) == [obj |-> "copy", items |-> s]

Items(ref) == IF ref.obj = "Snake.snake" THEN snake ELSE ref.items

\* SnakeStatus.__init__ stores its arguments as given
SnakeStatus(b, s, a, sc, al, w) ==
    [bounds |-> b, snake |-> s, apple |-> a, score |-> sc, alive |-> al, won |-> w]

\* a status built over a private copy of the body
get_status_copying ==
    SnakeStatus(bounds, CopiedList(snake), apple, score, alive, win)

\* Snake.get_status: the status holds self.snake itself, not a copy (320)
get_status == SnakeStatus(bounds, EngineList, apple, score, alive, win)

\* copy.deepcopy of a status: what a caller keeps to capture it by value
deepcopy(st) == [st EXCEPT !.snake = CopiedList(Items(st.snake))]

\* the values read from a status object now
Read(st) == [st EXCEPT !.snake = Items(st.snake)]

\* status.snake[-1]
StatusHead(st) == Items(st.snake)[Len(Items(st.snake))]

\* the local status of play_game before its first get_status
NoStatus == SnakeStatus(<<0, 0, 0, 0>>, CopiedList(<<>>), <<0, 0>>, 0, FALSE, FALSE)

\* ProximityPlayer.__init__
ProximityPlayerInit(r, g) ==
    /\ radius = r
    /\ gamma = g
    /\ exp_reward = <<>>

\* no file written yet; the second player is freshly built
NoFile == [exists |-> FALSE, bytes |-> <<>>]

StoreInit ==
    /\ other_exp_reward = <<>>
    /\ file = NoFile

\* no BoringPathPlayer is used
NoBoringPlayer ==
    /\ path = <<>>
    /\ idx = -1

CallerInit ==
    /\ pc = "loop"
    /\ status = NoStatus
    /\ direction = BadDir
    /\ history = <<>>

\* one game on a board of any size up to the bounds; no player is used
Init ==
    /\ \E w \in 1..MaxWidth, h \in 1..MaxHeight : SnakeInit(w, h)
    /\ call = NoCall
    /\ CallerInit
    /\ ProximityPlayerInit(0, <<0, 1>>)
    /\ StoreInit
    /\ NoBoringPlayer

Play ==
    /\ \E dir \in DIRS \cup {BadDir} : play(dir)
    /\ UNCHANGED <<caller, player, store, boring>>

Next == Play

Spec == Init /\ [][Next]_vars

\* --------------------------------------- ProximityPlayer (trained.py 11-229)
MAP_DEATH == 1
MAP_NONE == 0
REWARD_DEATH == -1
REWARD_NONE == 0
REWARD_APPLE == 100

\* the attributes class Position defines (game.py 11-18): looking up any other
\* name on the class raises AttributeError
PositionAttrs == {"LEFT", "UP", "RIGHT", "DOWN"}

Position_has(attr) == attr \in PositionAttrs

\* the gamma values a player is built with, as <<numerator, denominator>>
Gammas == {<<0, 1>>, <<1, 2>>, <<1, 1>>}

\* int(): truncation toward zero of num / den, den > 0
int(num, den) == IF num >= 0 THEN num \div den ELSE -((-num) \div den)

\* a clamp that stops at the radius itself
clamp_to_radius(d, r) == IF d > r THEN r ELSE (IF d < -r THEN -r ELSE d)

\* the clamp of an apple offset (trained.py 171-180)
clamp(d, r) == IF d > r THEN r + 1 ELSE (IF d < -r THEN -r - 1 ELSE d)

\* ProximityPlayer._retrieve_proximity_map, for radius r
_retrieve_proximity_map(st, r) ==
    LET n == 2 * r + 1
        head == StatusHead(st)
        cell(i) == Pos(head[1] + ((i - 1) % n) - r, head[2] + ((i - 1) \div n) - r)
        danger(i) == IF is_out_of_bounds(cell(i), st.bounds)
                        \/ cell(i) \in Range(Items(st.snake))
                     THEN MAP_DEATH ELSE MAP_NONE
    IN  [i \in 1..(n * n + 2) |->
            IF i <= n * n THEN danger(i)
            ELSE IF i = n * n + 1 THEN clamp(st.apple[1] - head[1], r)
            ELSE clamp(st.apple[2] - head[2], r)]

\* what _retrieve_movement yields when it raises (trained.py 211)
NonConsecutiveStatuses == -1

\* ProximityPlayer._retrieve_movement: the direction, or the raise
_retrieve_movement(curr_status, next_status) ==
    LET curr_head == StatusHead(curr_status)
        next_head == StatusHead(next_status)
    IN  IF curr_head[1] > next_head[1] THEN LEFT
        ELSE IF curr_head[2] < next_head[2] THEN UP
        ELSE IF curr_head[1] < next_head[1] THEN RIGHT
        ELSE IF curr_head[2] > next_head[2] THEN DOWN
        ELSE NonConsecutiveStatuses

\* ProximityPlayer._retrieve_reward
_retrieve_reward(curr_status, next_status) ==
    IF ~next_status.alive THEN REWARD_DEATH
    ELSE IF curr_status.score < next_status.score THEN REWARD_APPLE
    ELSE REWARD_NONE

\* ProximityPlayer._history_to_samples raises when some pair has no movement
samples_raise(h) ==
    \E i \in 1..(Len(h) - 1) : _retrieve_movement(h[i], h[i + 1]) = NonConsecutiveStatuses

\* ProximityPlayer._history_to_samples, when it does not raise
_history_to_samples(h, r) ==
    [i \in 1..(Len(h) - 1) |->
        [curr_map |-> _retrieve_proximity_map(h[i], r),
         next_map |-> _retrieve_proximity_map(h[i + 1], r),
         move |-> _retrieve_movement(h[i], h[i + 1]),
         reward |-> _retrieve_reward(h[i], h[i + 1])]]

\* the dict a key holds after self.exp_reward[map] = {} (trained.py 119)
EmptyDict == [d \in {} |-> 0]

\* table[key] = value, for a key that may be new
SetKey(table, key, value) ==
    [k \in DOMAIN table \cup {key} |-> IF k = key THEN value ELSE table[k]]

\* ProximityPlayer._add_map, when Position.DIRECTIONS can be read
_add_map(table, map) == SetKey(table, map, [d \in DIRS |-> REWARD_NONE])

Max(S) == CHOOSE x \in S : \A y \in S : y <= x

\* one pass of the loop body of train (trained.py 72-83)
train_sample(table, sample, g) ==
    LET t1 == IF sample.curr_map \in DOMAIN table THEN table
              ELSE _add_map(table, sample.curr_map)
        t2 == IF sample.next_map \in DOMAIN t1 THEN t1
              ELSE _add_map(t1, sample.next_map)
        next_max_reward == Max({t2[sample.next_map][d] : d \in DOMAIN t2[sample.next_map]})
        updated == int(sample.reward * g[2] + g[1] * next_max_reward, g[2])
    IN  SetKey(t2, sample.curr_map,
               [d \in DOMAIN t2[sample.curr_map] \cup {sample.move} |->
                    IF d = sample.move THEN updated ELSE t2[sample.curr_map][d]])

\* the loop of train, from sample i down to the first
RECURSIVE train_loop(_, _, _, _)
train_loop(table, samples, i, g) ==
    IF i = 0 THEN table
    ELSE train_loop(train_sample(table, samples[i], g), samples, i - 1, g)

\* what the first pass of the loop leaves in the table when reading
\* Position.DIRECTIONS raises: _add_map has stored {} for the first key that
\* was missing (119) and raised at 120; with both keys present 80 raises
train_attribute_error(table, sample) ==
    IF sample.curr_map \notin DOMAIN table THEN SetKey(table, sample.curr_map, EmptyDict)
    ELSE IF sample.next_map \notin DOMAIN table THEN SetKey(table, sample.next_map, EmptyDict)
    ELSE table

\* ProximityPlayer.train(h)
train(h) ==
    IF samples_raise(h)
    THEN \* 211, from 142
         /\ call' = Called("train", BadDir, "NonConsecutive")
         /\ UNCHANGED exp_reward
    ELSE LET samples == _history_to_samples(h, radius)
         IN  IF Len(samples) = 0
             THEN /\ call' = Called("train", BadDir, "none")
                  /\ UNCHANGED exp_reward
             ELSE IF ~Position_has("DIRECTIONS")
             THEN /\ call' = Called("train", BadDir, "AttributeError")
                  /\ exp_reward' = train_attribute_error(exp_reward, samples[Len(samples)])
             ELSE /\ call' = Called("train", BadDir, "none")
                  /\ exp_reward' = train_loop(exp_reward, samples, Len(samples), gamma)

\* ------------------------------------------------ play_game (__init__.py)
MaxMoves == 3

\* 18-20: the loop test, get_status and the player's choice of a direction
PlayGameGetStatus ==
    /\ pc = "loop"
    /\ ~is_game_over
    /\ Len(history) < MaxMoves
    /\ status' = get_status
    /\ \E dir \in DIRS : direction' = dir
    /\ pc' = "play"
    /\ call' = Called("get_status", BadDir, "none")
    /\ UNCHANGED <<engine, history, player, store, boring>>

\* the move, then the append of a status taken after it
PlayGamePlay_status_after ==
    /\ pc = "play"
    /\ play(direction)
    /\ history' = Append(history, SnakeStatus(bounds, CopiedList(snake'), apple', score', alive', win'))
    /\ pc' = "loop"
    /\ UNCHANGED <<status, direction, player, store, boring>>

\* 21-22: the move, then the append of the status taken before it
PlayGamePlay ==
    /\ pc = "play"
    /\ play(direction)
    /\ history' = Append(history, status)
    /\ pc' = "loop"
    /\ UNCHANGED <<status, direction, player, store, boring>>

\* 18, 23: the game is over and the history is returned
PlayGameReturn ==
    /\ pc = "loop"
    /\ is_game_over
    /\ pc' = "done"
    /\ call' = Called("play_game", BadDir, "none")
    /\ UNCHANGED <<engine, status, direction, history, player, store, boring>>

\* the returned history is given to train
TrainOnGame ==
    /\ pc = "done"
    /\ train(history)
    /\ UNCHANGED <<engine, caller, radius, gamma, store, boring>>

MaxRadius == 1

InitGame ==
    /\ \E w \in 1..MaxWidth, h \in 1..MaxHeight : SnakeInit(w, h)
    /\ call = NoCall
    /\ CallerInit
    /\ \E r \in 0..MaxRadius, g \in Gammas : ProximityPlayerInit(r, g)
    /\ StoreInit
    /\ NoBoringPlayer

NextGame == PlayGameGetStatus \/ PlayGamePlay \/ PlayGameReturn \/ TrainOnGame

SpecGame == InitGame /\ [][NextGame]_vars

\* ------------------------------- training on a trajectory captured by value
MaxTraj == 3

\* a caller that plays the engine move by move and keeps a deep copy of the
\* status of every turn, the terminal one included
InitTrain ==
    /\ \E w \in 1..MaxWidth, h \in 1..MaxHeight : SnakeInit(w, h)
    /\ call = NoCall
    /\ pc = "loop"
    /\ status = NoStatus
    /\ direction = BadDir
    /\ history = <<deepcopy(get_status)>>
    /\ \E r \in 0..MaxRadius, g \in Gammas : ProximityPlayerInit(r, g)
    /\ StoreInit
    /\ NoBoringPlayer

\* one move, then the capture of the status it leaves
Record ==
    /\ ~is_game_over
    /\ Len(history) < MaxTraj
    /\ \E dir \in DIRS :
        /\ play(dir)
        /\ direction' = dir
    /\ history' = Append(history, deepcopy(get_status)')
    /\ UNCHANGED <<pc, status, player, store, boring>>

\* the trajectory captured so far is given to train
TrainOnRecord ==
    /\ train(history)
    /\ UNCHANGED <<engine, caller, radius, gamma, store, boring>>

NextTrain == Record \/ TrainOnRecord

SpecTrain == InitTrain /\ [][NextTrain]_vars

\* ---------------------------------------- compute_move beside the training
\* ProximityPlayer.compute_move(st) on a table: the table it leaves, the
\* exception it raises and the directions it may return
compute_move_on(table, st) ==
    LET map == _retrieve_proximity_map(st, radius)
    IN  IF ~Position_has("DIRECTIONS")
        THEN \* _add_map stores {} (119) and raises at 120; a known key raises at 58
             [table |-> IF map \in DOMAIN table THEN table
                        ELSE SetKey(table, map, EmptyDict),
              raised |-> "AttributeError",
              dirs |-> {BadDir}]
        ELSE LET added == IF map \in DOMAIN table THEN table ELSE _add_map(table, map)
                 max_reward == Max({added[map][d] : d \in DOMAIN added[map]})
             IN  [table |-> added,
                  raised |-> "none",
                  dirs |-> {d \in DOMAIN added[map] : added[map][d] = max_reward}]

\* ProximityPlayer.compute_move(st)
compute_move(st) ==
    /\ exp_reward' = compute_move_on(exp_reward, st).table
    /\ \E dir \in compute_move_on(exp_reward, st).dirs :
            call' = Called("compute_move", dir, compute_move_on(exp_reward, st).raised)

\* the player is asked for a move on the engine's current status
ComputeMove ==
    /\ compute_move(get_status)
    /\ UNCHANGED <<engine, caller, radius, gamma, store, boring>>

NextAgent == Record \/ TrainOnRecord \/ ComputeMove

SpecAgent == InitTrain /\ [][NextAgent]_vars

\* the statuses of a game, captured by value, with no call on the player
NextRecord == Record

SpecRecord == InitTrain /\ [][NextRecord]_vars

\* ------------------------- training on a history the caller put together
\* a status, held by value, of a one-cell snake at p on the engine's board
StatusAt(p) == SnakeStatus(bounds, CopiedList(<<p>>), apple, score, TRUE, FALSE)

\* the caller hands train two statuses: the engine's first status and a
\* status whose head is any cell of the board
InitPair ==
    /\ \E w \in 1..MaxWidth, h \in 1..MaxHeight : SnakeInit(w, h)
    /\ call = NoCall
    /\ pc = "loop"
    /\ status = NoStatus
    /\ direction = BadDir
    /\ \E p \in random_position(bounds, <<>>) :
            history = <<deepcopy(get_status), StatusAt(p)>>
    /\ \E r \in 0..MaxRadius, g \in Gammas : ProximityPlayerInit(r, g)
    /\ StoreInit
    /\ NoBoringPlayer

NextPair == TrainOnRecord

SpecPair == InitPair /\ [][NextPair]_vars

\* --------------------------------- save_model / load_model (trained.py 85-109)
\* the elements of a finite set, in some fixed order
RECURSIVE SetToSeq(_)
SetToSeq(S) ==
    IF S = {} THEN <<>>
    ELSE LET x == CHOOSE y \in S : TRUE
         IN  <<x>> \o SetToSeq(S \ {x})

\* pickle.dumps of a table: one record per key, holding the key and its
\* (direction, reward) items
pickle_dumps(table) ==
    LET keys == SetToSeq(DOMAIN table)
    IN  [i \in 1..Len(keys) |->
            [key |-> keys[i],
             items |-> LET ds == SetToSeq(DOMAIN table[keys[i]])
                       IN  [j \in 1..Len(ds) |-> <<ds[j], table[keys[i]][ds[j]]>>]]]

\* pickle.loads: the dict rebuilt from the records
pickle_loads(bytes) ==
    LET rec(k) == CHOOSE e \in Range(bytes) : e.key = k
        item(k, d) == CHOOSE it \in Range(rec(k).items) : it[1] = d
    IN  [k \in {e.key : e \in Range(bytes)} |->
            [d \in {it[1] : it \in Range(rec(k).items)} |-> item(k, d)[2]]]

\* a load that adds the stored keys to the table it already has
loaded_table_merged(old, bytes) ==
    [k \in DOMAIN old \cup DOMAIN pickle_loads(bytes) |->
        IF k \in DOMAIN pickle_loads(bytes) THEN pickle_loads(bytes)[k] ELSE old[k]]

\* the table load_model leaves: self.exp_reward = pickle.loads(f.read()) (109)
loaded_table(old, bytes) == pickle_loads(bytes)

\* the first player saves its table
SaveModel ==
    /\ file' = [exists |-> TRUE, bytes |-> pickle_dumps(exp_reward)]
    /\ call' = Called("save_model", BadDir, "none")
    /\ UNCHANGED <<engine, caller, player, other_exp_reward, boring>>

\* the second player loads the file; open raises when nothing was saved
LoadModel ==
    /\ IF file.exists
       THEN /\ other_exp_reward' = loaded_table(other_exp_reward, file.bytes)
            /\ call' = Called("load_model", BadDir, "none")
       ELSE /\ call' = Called("load_model", BadDir, "FileNotFoundError")
            /\ UNCHANGED other_exp_reward
    /\ UNCHANGED <<engine, caller, player, file, boring>>

\* the second player is asked for a move on the latest status of the history
OtherComputeMove ==
    /\ other_exp_reward' = compute_move_on(other_exp_reward, history[Len(history)]).table
    /\ \E dir \in compute_move_on(other_exp_reward, history[Len(history)]).dirs :
            call' = Called("other.compute_move", dir,
                           compute_move_on(other_exp_reward, history[Len(history)]).raised)
    /\ UNCHANGED <<engine, caller, player, file, boring>>

\* two players of the same radius; the history holds the engine's first
\* status and a status whose head is on the apple
InitModel ==
    /\ \E w \in 1..MaxWidth, h \in 1..MaxHeight : SnakeInit(w, h)
    /\ call = NoCall
    /\ pc = "loop"
    /\ status = NoStatus
    /\ direction = BadDir
    /\ history = <<deepcopy(get_status), StatusAt(apple)>>
    /\ \E r \in 0..MaxRadius : ProximityPlayerInit(r, <<1, 2>>)
    /\ StoreInit
    /\ NoBoringPlayer

NextModel == TrainOnRecord \/ OtherComputeMove \/ SaveModel \/ LoadModel

SpecModel == InitModel /\ [][NextModel]_vars

\* ------------------------------------------- BoringPathPlayer (algoritmic.py)
\* 72-73: [dir for _ in range(k)], empty for k <= 0
rep(dir, k) == [n \in 1..k |-> dir]

\* 48-55: the columns of the even-width branch, from column i on
RECURSIVE even_width_columns(_, _, _)
even_width_columns(i, w, h) ==
    IF i >= w THEN <<>>
    ELSE LET correction == IF i = 0 \/ i = w - 1 THEN 0 ELSE -1
             leg == IF i % 2 = 0 THEN rep(UP, h - 1 + correction)
                                 ELSE rep(DOWN, h - 1 + correction)
             step == IF i # w - 1 THEN rep(RIGHT, 1) ELSE <<>>
         IN  leg \o step \o even_width_columns(i + 1, w, h)

\* 59-66: the rows of the even-height branch, from row i on
RECURSIVE even_height_rows(_, _, _)
even_height_rows(i, w, h) ==
    IF i >= h THEN <<>>
    ELSE LET correction == IF i = 0 \/ i = h - 1 THEN 0 ELSE -1
             leg == IF i % 2 = 0 THEN rep(RIGHT, w - 1 + correction)
                                 ELSE rep(LEFT, w - 1 + correction)
             step == IF i # h - 1 THEN rep(UP, 1) ELSE <<>>
         IN  leg \o step \o even_height_rows(i + 1, w, h)

\* 47-70: the move list of the constructor; it raises when both are odd
BoringPathRaises(w, h) == w % 2 # 0 /\ h % 2 # 0

BoringPath(w, h) ==
    IF w % 2 = 0 THEN even_width_columns(0, w, h) \o rep(LEFT, w - 1)
    ELSE IF h % 2 = 0 THEN even_height_rows(0, w, h) \o rep(DOWN, w - 1)
    ELSE <<>>

\* 43-70: BoringPathPlayer(width, height) for the board of the engine
BoringPathPlayerInit ==
    /\ idx = -1
    /\ path = BoringPath(width, height)
    /\ call = IF BoringPathRaises(width, height)
              THEN Called("BoringPathPlayer", BadDir, "Exception")
              ELSE NoCall

\* 75-93: the move for a status, and the index the player is left with
boring_compute_move(st) ==
    IF idx = -1 /\ StatusHead(st)[1] > 0 THEN [dir |-> LEFT, idx |-> idx]
    ELSE IF idx = -1 /\ StatusHead(st)[2] > 0 THEN [dir |-> DOWN, idx |-> idx]
    ELSE [dir |-> path[((idx + 1) % Len(path)) + 1], idx |-> (idx + 1) % Len(path)]

MaxBoringMoves == 20

\* play_game 18-20 with a BoringPathPlayer: the loop test, get_status and
\* the player's move
BoringGetStatus ==
    /\ pc = "loop"
    /\ path # <<>>
    /\ ~is_game_over
    /\ Len(history) < MaxBoringMoves
    /\ status' = get_status
    /\ direction' = boring_compute_move(get_status).dir
    /\ idx' = boring_compute_move(get_status).idx
    /\ pc' = "play"
    /\ call' = Called("boring.compute_move", boring_compute_move(get_status).dir, "none")
    /\ UNCHANGED <<engine, history, player, store, path>>

InitBoring ==
    /\ \E w \in 1..MaxWidth, h \in 1..MaxHeight : SnakeInit(w, h)
    /\ BoringPathPlayerInit
    /\ CallerInit
    /\ ProximityPlayerInit(0, <<0, 1>>)
    /\ StoreInit

NextBoring == BoringGetStatus \/ PlayGamePlay \/ PlayGameReturn

SpecBoring == InitBoring /\ [][NextBoring]_vars

\* play_game is a sequential loop: a step that can be taken is taken
SpecBoringFair == SpecBoring /\ WF_vars(NextBoring)

\* ------------------------------------------------------------ engine claims
\* the direction-to-delta table of the data model
Delta(dir) ==
    CASE dir = RIGHT -> <<1, 0>>
      [] dir = LEFT -> <<-1, 0>>
      [] dir = UP -> <<0, 1>>
      [] dir = DOWN -> <<0, -1>>

\* the cell reached by moving the head of body s by dir
Candidate(s, dir) == <<s[Len(s)][1] + Delta(dir)[1], s[Len(s)][2] + Delta(dir)[2]>>

OffBoard(p) == p[1] < 0 \/ p[1] >= width \/ p[2] < 0 \/ p[2] >= height

OnBody(p, s) == \E i \in 1..Len(s) : s[i] = p

Playing == alive /\ ~win

\* a step that is a call play(d) with a recognised direction, made while PLAYING
PlayStep == call'.op = "play" /\ call'.dir \in DIRS /\ Playing

\* C1: a move made while PLAYING whose candidate cell is off the board or on
\* any body cell (the tail cell included) sets alive to false and leaves body,
\* apple and score as they were.
C1_FatalMoveFrame ==
    [][(PlayStep /\ (OffBoard(Candidate(snake, call'.dir))
                      \/ OnBody(Candidate(snake, call'.dir), snake)))
        => (alive' = FALSE /\ snake' = snake /\ apple' = apple /\ score' = score)]_vars

\* a dead game whose fatal move ran into the tail cell of a body of 3 or more
C1_Witness ==
    /\ ~alive
    /\ call.op = "play" /\ call.raised = "none"
    /\ Len(snake) >= 3
    /\ Candidate(snake, call.dir) = snake[1]

\* C2: DEAD and WON are absorbing: play in a state where the game is over
\* raises and leaves body, apple, score, alive and win unchanged.
C2_TerminalAbsorbing ==
    [][((~alive \/ win) /\ call'.op = "play")
        => (call'.raised = "GameOver" /\ snake' = snake /\ apple' = apple
            /\ score' = score /\ alive' = alive /\ win' = win)]_vars

\* play was refused in a WON game
C2_Witness == win /\ alive /\ call.op = "play" /\ call.raised = "GameOver"

\* C5: an accepted move that reaches the apple adds 1 to score and to the body
\* length and keeps the previous body as a prefix; any other accepted move
\* keeps score and length, drops the old tail and ends with the candidate.
C5_AcceptedMove ==
    [][(PlayStep /\ ~OffBoard(Candidate(snake, call'.dir))
                 /\ ~OnBody(Candidate(snake, call'.dir), snake))
        => IF Candidate(snake, call'.dir) = apple
           THEN /\ score' = score + 1
                /\ Len(snake') = Len(snake) + 1
                /\ SubSeq(snake', 1, Len(snake)) = snake
           ELSE /\ score' = score
                /\ Len(snake') = Len(snake)
                /\ \A i \in 1..(Len(snake) - 1) : snake'[i] = snake[i + 1]
                /\ snake'[Len(snake')] = Candidate(snake, call'.dir)]_vars

\* a game still PLAYING right after an accepted move, whose body of 3 has
\* eaten twice and whose head is where that move took it
C5_Witness ==
    /\ Playing /\ call.op = "play" /\ call.raised = "none"
    /\ score = 2 /\ Len(snake) = 3
    /\ Candidate(SubSeq(snake, 1, 2), call.dir) = snake[3]

\* C6: won is true exactly when the body fills the board, and the move that
\* fills the board leaves the apple where it was.
C6_WonIffFull ==
    /\ [](win <=> Len(snake) = width * height)
    /\ [][(Len(snake') = width * height /\ Len(snake) # width * height)
          => apple' = apple]_vars

\* a won game on a board of at least 6 cells
C6_Witness == win /\ Len(snake) = width * height /\ width * height >= 6

\* C7: after construction and in every reachable state that is not won, the
\* apple is on no body cell.
C7_AppleOffBody == ~win => ~OnBody(apple, snake)

\* a game that is not won in which the apple was placed again beside a body
\* of 4 cells
C7_Witness ==
    /\ ~win /\ score = 3 /\ Len(snake) = 4
    /\ call.op = "play" /\ Candidate(SubSeq(snake, 1, 3), call.dir) = snake[4]
\* ------------------------------------------------------ status object claims
\* C3: a status returned by get_status is an immutable snapshot: whatever the
\* engine does afterwards, the body, apple, score, alive and won read from the
\* status object stay what they were when get_status was called.
C3_SnapshotImmutable ==
    [][/\ (pc = "play" /\ status' = status) => Read(status)' = Read(status)
       /\ \A i \in 1..Len(history) : Read(history[i])' = Read(history[i])]_vars

Abs(n) == IF n < 0 THEN -n ELSE n

\* p and q are one unit step apart in exactly one axis
UnitStep(p, q) == Abs(p[1] - q[1]) + Abs(p[2] - q[2]) = 1

\* C4: in the history play_game returns, the heads of consecutive entries are
\* one unit step apart, and train on that history never raises
\* "Non-consecutive statuses".
C4_HistoryConsecutive ==
    pc = "done" =>
        /\ \A i \in 1..(Len(history) - 1) :
                UnitStep(StatusHead(history[i]), StatusHead(history[i + 1]))
        /\ call.op = "train" => call.raised # "NonConsecutive"
\* ---------------------------------------------------------- training claims
\* the stored reward equals the exact value num / den
StoredIs(table, key, dir, num, den) ==
    /\ key \in DOMAIN table
    /\ dir \in DOMAIN table[key]
    /\ table[key][dir] * den = num

\* max over the four directions of table[key], a key not yet present holding
\* the default 0 for each direction
NextBest(table, key) ==
    IF key \in DOMAIN table /\ DOMAIN table[key] # {}
    THEN Max({table[key][d] : d \in DOMAIN table[key]})
    ELSE REWARD_NONE

\* C8: train overwrites reward_table[current_key][move] with exactly
\* reward + gamma * next_best for the transition it processes, for every gamma
\* and without rounding. Stated for every trajectory whose heads are
\* consecutive: train completes, and where the trajectory has one transition
\* the entry holds that exact value.
C8_ExactUpdate ==
    [][(call'.op = "train" /\ Len(history) >= 2 /\ ~samples_raise(history))
        => /\ call'.raised = "none"
           /\ Len(history) = 2 =>
                LET sample == _history_to_samples(history, radius)[1]
                IN  StoredIs(exp_reward', sample.curr_map, sample.move,
                             sample.reward * gamma[2]
                                + gamma[1] * NextBest(exp_reward, sample.next_map),
                             gamma[2])]_vars

\* a trajectory of at least 3 statuses whose last status is the not-alive
\* status left by a fatal move
DeathTrajectory == Len(history) >= 3 /\ ~history[Len(history)].alive

\* C9: training a fresh player on a trajectory ending in death completes
\* without error and leaves reward_table[key of the pre-death status][the
\* fatal move] equal to DEATH_REWARD.
C9_DeathReward ==
    [][(call'.op = "train" /\ exp_reward = <<>> /\ DeathTrajectory)
        => /\ call'.raised = "none"
           /\ StoredIs(exp_reward',
                       _retrieve_proximity_map(history[Len(history) - 1], radius),
                       direction, REWARD_DEATH, 1)]_vars

\* C10: after that training the sample before the death transition holds
\* 0 + gamma * DEATH_REWARD.
C10_DeathPropagated ==
    [][(call'.op = "train" /\ exp_reward = <<>> /\ DeathTrajectory)
        => LET n == Len(history)
           IN  StoredIs(exp_reward',
                        _retrieve_proximity_map(history[n - 2], radius),
                        _retrieve_movement(history[n - 2], history[n - 1]),
                        gamma[1] * REWARD_DEATH, gamma[2])]_vars
\* ------------------------------------------------- more claims on the engine
\* C16: play with a direction outside the four recognised ones, called while
\* PLAYING, raises and leaves body, apple, score, alive and win unchanged.
C16_InvalidMove ==
    [][(Playing /\ call'.op = "play" /\ call'.dir \notin {LEFT, UP, RIGHT, DOWN})
        => (call'.raised = "InvalidMove" /\ snake' = snake /\ apple' = apple
            /\ score' = score /\ alive' = alive /\ win' = win)]_vars

\* an invalid direction was refused in a game still PLAYING with a body of 3
C16_Witness ==
    /\ Playing /\ Len(snake) = 3
    /\ call.op = "play" /\ call.dir = BadDir /\ call.raised = "InvalidMove"

\* C17: for every position p the engine holds (head or body cell) and every
\* direction d, p.move(d) is p shifted by the delta of d (RIGHT +x, LEFT -x,
\* UP +y, DOWN -y), and LEFT then RIGHT, and UP then DOWN, return to p.
C17_MoveAlgebra ==
    \A i \in 1..Len(snake) :
        LET p == snake[i]
        IN  /\ \A d \in {LEFT, UP, RIGHT, DOWN} :
                move(p, d) = <<p[1] + Delta(d)[1], p[2] + Delta(d)[2]>>
            /\ move(move(p, LEFT), RIGHT) = p
            /\ move(move(p, UP), DOWN) = p

\* an accepted move UP put the head one cell above the cell before it
C17_Witness ==
    /\ call.op = "play" /\ call.dir = UP /\ call.raised = "none" /\ alive
    /\ Len(snake) >= 2
    /\ snake[Len(snake)] = <<snake[Len(snake) - 1][1], snake[Len(snake) - 1][2] + 1>>

\* C18: the body cells are pairwise distinct, all on the board, and each
\* consecutive pair is one unit step apart in exactly one axis.
C18_BodyWellFormed ==
    /\ \A i, j \in 1..Len(snake) : i # j => snake[i] # snake[j]
    /\ \A i \in 1..Len(snake) : ~OffBoard(snake[i])
    /\ \A i \in 1..(Len(snake) - 1) : UnitStep(snake[i], snake[i + 1])

\* a body of 5 cells whose head lies beside a body cell that is not its neck
C18_Witness ==
    /\ Len(snake) = 5
    /\ \E i \in 1..3 : UnitStep(snake[i], snake[5])
\* ------------------------------------------------- more claims on training
\* C11: train fails for every adjacent pair of entries whose heads are not
\* one unit step apart in exactly one axis (identical, diagonal, two or more
\* cells apart): it raises "Non-consecutive statuses", no direction is
\* inferred and no table entry is written.
C11_NonConsecutiveRaises ==
    (call.op = "train"
        /\ \E i \in 1..(Len(history) - 1) :
                ~UnitStep(StatusHead(history[i]), StatusHead(history[i + 1])))
    => (call.raised = "NonConsecutive" /\ exp_reward = <<>>)
\* the key compute_move looks up for the engine's current status
CurrentKey == _retrieve_proximity_map(get_status, radius)

\* C12: compute_move returns a direction whose stored reward for the key is
\* the maximum over the four directions; a key that was not in the table is
\* inserted with all four directions at 0; no entry of a key already present
\* changes.
C12_ComputeMoveArgmax ==
    [][call'.op = "compute_move"
        => /\ call'.raised = "none"
           /\ CurrentKey \in DOMAIN exp_reward'
           /\ DOMAIN exp_reward'[CurrentKey] = {LEFT, UP, RIGHT, DOWN}
           /\ \A d \in {LEFT, UP, RIGHT, DOWN} :
                exp_reward'[CurrentKey][d] <= exp_reward'[CurrentKey][call'.dir]
           /\ CurrentKey \notin DOMAIN exp_reward
                => \A d \in {LEFT, UP, RIGHT, DOWN} : exp_reward'[CurrentKey][d] = 0
           /\ \A k \in DOMAIN exp_reward : exp_reward'[k] = exp_reward[k]]_vars

\* C13: over any sequence of compute_move and train calls the key set of the
\* table only grows, every present key has an entry for each of exactly the
\* four directions, and a key's entries are all 0 when it is first inserted.
C13_TableShape ==
    /\ [](\A k \in DOMAIN exp_reward : DOMAIN exp_reward[k] = {LEFT, UP, RIGHT, DOWN})
    /\ [][/\ DOMAIN exp_reward \subseteq DOMAIN exp_reward'
          /\ \A k \in DOMAIN exp_reward' \ DOMAIN exp_reward :
                \A d \in DOMAIN exp_reward'[k] : exp_reward'[k][d] = 0]_vars

\* the keys of a trajectory are pairwise distinct
DistinctKeys(h, r) ==
    \A i, j \in 1..Len(h) :
        i # j => _retrieve_proximity_map(h[i], r) # _retrieve_proximity_map(h[j], r)

\* C19: after train returns on a trajectory whose keys are pairwise distinct,
\* every transition i holds reward_i + gamma * max over the directions of the
\* final reward_table[key_(i+1)]: each update used the updated estimate of its
\* successor.
C19_BackwardBootstrap ==
    [][(call'.op = "train" /\ Len(history) >= 3 /\ ~samples_raise(history)
            /\ DistinctKeys(history, radius))
        => /\ call'.raised = "none"
           /\ \A i \in 1..(Len(history) - 1) :
                LET sample == _history_to_samples(history, radius)[i]
                IN  StoredIs(exp_reward', sample.curr_map, sample.move,
                             sample.reward * gamma[2]
                                + gamma[1] * NextBest(exp_reward', sample.next_map),
                             gamma[2])]_vars
\* ---------------------------------------------------- claims on the encoder
Min2(a, b) == IF a < b THEN a ELSE b

Max2(a, b) == IF a > b THEN a ELSE b

\* C15: the key of a status for radius r has length (2r+1)^2 + 2; its entry
\* at raster index (dy+r)*(2r+1) + (dx+r), counted from 0, is 1 exactly when
\* the cell (head.x+dx, head.y+dy) is off the board or a body cell, else 0;
\* its last two entries are apple.x-head.x and apple.y-head.y, each clamped
\* to [-r-1, r+1]. Stated for the latest captured status.
C15_KeyLayout ==
    LET st == history[Len(history)]
        r == radius
        n == 2 * r + 1
        body == st.snake.items
        head == body[Len(body)]
        key == _retrieve_proximity_map(st, r)
    IN  /\ Len(key) = n * n + 2
        /\ \A dx \in (-r)..r, dy \in (-r)..r :
                key[(dy + r) * n + (dx + r) + 1] =
                    IF OffBoard(<<head[1] + dx, head[2] + dy>>)
                        \/ OnBody(<<head[1] + dx, head[2] + dy>>, body)
                    THEN 1 ELSE 0
        /\ key[n * n + 1] = Max2(-r - 1, Min2(r + 1, st.apple[1] - head[1]))
        /\ key[n * n + 2] = Max2(-r - 1, Min2(r + 1, st.apple[2] - head[2]))

\* a captured status with radius 1 whose window holds a body cell beside the
\* head and a free cell, and whose apple is two columns away
C15_Witness ==
    /\ radius = 1 /\ Len(history) >= 2 /\ Len(snake) >= 2
    /\ history[Len(history)].snake.items = snake
    /\ Abs(apple[1] - snake[Len(snake)][1]) = 2
    /\ \E d \in {LEFT, UP, RIGHT, DOWN} :
            ~OffBoard(Candidate(snake, d)) /\ ~OnBody(Candidate(snake, d), snake)
\* ------------------------------------------------- claims on the model file
\* the directions compute_move chooses among for a key of a table
ArgMax(table, k) ==
    {d \in DOMAIN table[k] : \A e \in DOMAIN table[k] : table[k][e] <= table[k][d]}

\* C14: save_model followed by load_model is an exact round trip: when the
\* second player loads right after the first one saved, its table equals the
\* first player's table key for key and entry for entry, whatever it held
\* before, and the argmax direction set of every key is the same for both.
C14_SaveLoadRoundTrip ==
    [][(call.op = "save_model" /\ call'.op = "load_model")
        => /\ call'.raised = "none"
           /\ DOMAIN other_exp_reward' = DOMAIN exp_reward
           /\ \A k \in DOMAIN exp_reward :
                /\ DOMAIN other_exp_reward'[k] = DOMAIN exp_reward[k]
                /\ \A d \in DOMAIN exp_reward[k] : other_exp_reward'[k][d] = exp_reward[k][d]
                /\ ArgMax(other_exp_reward', k) = ArgMax(exp_reward, k)]_vars

\* the second player has loaded a table with a key, and the key it held
\* before the load is gone
C14_Witness ==
    /\ call.op = "load_model" /\ call.raised = "none"
    /\ other_exp_reward = exp_reward
    /\ exp_reward # <<>>
    /\ _retrieve_proximity_map(history[2], radius) \notin DOMAIN other_exp_reward

\* ------------------------------------------------ claims on BoringPathPlayer
\* the cells reached by following the moves from p, one per move
RECURSIVE Walk(_, _)
Walk(p, moves) ==
    IF moves = <<>> THEN <<>>
    ELSE <<move(p, moves[1])>> \o Walk(move(p, moves[1]), Tail(moves))

Cells == (0..(width - 1)) \X (0..(height - 1))

\* C20: on every board with even width, or odd width and even height, the
\* move list of BoringPathPlayer followed from (0,0) never leaves the board,
\* visits each of the width*height cells exactly once per cycle and ends the
\* cycle back at (0,0).
C20_BoringPathCoversBoard ==
    (width % 2 = 0 \/ height % 2 = 0)
        => LET cells == Walk(<<0, 0>>, path)
           IN  /\ path # <<>>
               /\ \A n \in 1..Len(cells) : ~OffBoard(cells[n])
               /\ Len(cells) = width * height
               /\ {cells[n] : n \in 1..Len(cells)} = Cells
               /\ cells[Len(cells)] = <<0, 0>>

\* ---------------------------------------------------- claims on the score
\* C23: in every state reached from Snake(width, height) by any sequence of
\* play calls, dead and won states included, score = len(snake) - 1.
C23_ScoreIsLength == score = Len(snake) - 1

\* a game that ended by a death after two apples
C23_Witness ==
    /\ call.op = "play" /\ call.raised = "none"
    /\ ~alive
    /\ score = 2
    /\ Len(snake) = 3

\* ------------------------------------------- claims on the returned history
\* C22: every status in the history play_game returns has alive = true and
\* won = false, the terminal status reached by the last move never being
\* appended; the history grows by exactly one entry with each play call and
\* with nothing else, so its length is the number of play calls; and no
\* transition of a returned history gets DEATH_REWARD from _retrieve_reward.
C22_HistoryAlive ==
    [][/\ call'.op = "play" => Len(history') = Len(history) + 1
       /\ call'.op # "play" => history' = history
       /\ pc' = "done" =>
            /\ \A i \in 1..Len(history') : history'[i].alive /\ ~history'[i].won
            /\ \A i \in 1..(Len(history') - 1) :
                    _retrieve_reward(history'[i], history'[i + 1]) # REWARD_DEATH]_vars

\* train has been called on the returned history of a game lost at its
\* third move
C22_Witness ==
    /\ pc = "done"
    /\ call.op = "train"
    /\ ~alive
    /\ Len(history) = 3

\* ------------------------------------- claims on games of BoringPathPlayer
\* C21: play_game(Snake(width, height), BoringPathPlayer(width, height)) on a
\* board with even width or even height always ends with won = true: from
\* every initial cell and under every sequence of apple placements the snake
\* never dies, the walk to (0,0) included, and eventually fills the board.
C21_BoringAlwaysWins ==
    (width % 2 = 0 \/ height % 2 = 0) => ([]alive /\ <>(pc = "done" /\ win))
====
